---- MODULE Spec2Model ----
(***************************************************************************)
(* A model of lib/oidc-client.js: the relying-party client that builds an  *)
(* authorization request, keeps the request state in a key/value store,    *)
(* and validates the callback (state, token shape, identity-token          *)
(* signature and claims, at_hash binding) against provider metadata.       *)
(*                                                                         *)
(* JavaScript values are modelled as follows.  A string-valued slot that   *)
(* is absent holds Undefined; an object-valued slot that is absent holds   *)
(* UndefinedObj.  Objects with optional members (token payload, userinfo   *)
(* response, profile, request state) are functions whose domain is the set *)
(* of members that are present.  Every handler is one action; the promise  *)
(* chain it starts is run to its end inside the action, and the events of  *)
(* the chain (fetches, signature verification, claim checks) are recorded  *)
(* in order in call.log.                                                   *)
(***************************************************************************)
EXTENDS Integers, Sequences, FiniteSets, TLC

VARIABLES
    serverSettings,   \* the argument the client was constructed with
    settings,         \* the client's _settings, with the documents it caches
    provider,         \* the documents the provider serves
    store,            \* the request-state store, by key
    call,             \* the handler that ran last, its arguments and outcome
    lastStoreAccess,  \* history: the last access to the request-state entry of
                      \* the store: "none", "written" (createTokenRequestAsync),
                      \* "read: entry" or "read: no entry" (processResponseAsync)
    attempts          \* history: the requests built and the callbacks processed
                      \* so far, in order (kept by SpecAttempts)

vars == <<serverSettings, settings, provider, store, call, lastStoreAccess,
          attempts>>

---------------------------------------------------------------------------
(* Bounds of the model.                                                    *)

\* At most this many members of one scenario (configuration, provider
\* documents, transport, callback fields, token claims) differ from the
\* honest scenario at the same time.
MaxFaults == 2

\* Longest key set drawn for the signing-key selection.
MaxKeys == 3

---------------------------------------------------------------------------
(* JavaScript values.                                                      *)

Undefined == "undefined"

UndefinedObj == [undefined |-> TRUE]

\* !v for a string-valued slot
Falsy(v) == v \in {Undefined, ""}

\* o.k, where a member that is not there reads as undefined
Get(o, k) == IF k \in DOMAIN o THEN o[k] ELSE Undefined

\* the current time in seconds, Math.round(Date.now() / 1000)
Now == 1000

\* JSON.stringify of a request state: the members in insertion order, each
\* with the kind and text of its literal (oidc and oauth are booleans, state
\* and nonce strings).  keys is the insertion order; a member that was never
\* set is not written.
RECURSIVE Members(_, _)
Members(obj, keys) ==
    IF keys = <<>> THEN <<>>
    ELSE LET k == Head(keys)
             rest == Members(obj, Tail(keys))
         IN  IF k \notin DOMAIN obj THEN rest
             ELSE IF k \in {"oidc", "oauth"}
                  THEN <<<<k, "boolean", IF obj[k] THEN "true" ELSE "false">>>> \o rest
                  ELSE <<<<k, "string", obj[k]>>>> \o rest

JSON_stringify(obj, keys) == [members |-> Members(obj, keys)]

\* the text "null"
JSON_null == [literal |-> "null"]

\* a text that is no JSON, such as the "[object Object]" an object turns into
NotJSON == [text |-> "[object Object]"]

\* null, as JSON.parse returns it for the text "null"
Null == [null |-> TRUE]

IsJSON(text) == "members" \in DOMAIN text \/ text = JSON_null

\* JSON.parse of a text for which IsJSON holds
JSON_parse(text) ==
    IF text = JSON_null THEN Null
    ELSE LET ms == text.members
             at(k) == CHOOSE i \in 1..Len(ms) : ms[i][1] = k
         IN  [k \in {ms[i][1] : i \in 1..Len(ms)} |->
                 IF ms[at(k)][2] = "boolean" THEN ms[at(k)][3] = "true"
                 ELSE ms[at(k)][3]]

\* encodeURIComponent and its inverse
encodeURIComponent(v) == <<"uri", v>>

decodeURIComponent(e) == e[2]

\* r.hextob64u of the left half of r.crypto.Util.sha256(access_token); the
\* hash is taken to be free of collisions on the access tokens of the model
LeftHashB64u(access_token) ==
    CASE access_token = "at1" -> "L1"
      [] access_token = "at2" -> "L2"
      [] OTHER -> "L0"

\* utility.copy(obj, target): the own members of obj written over target
copy(obj, target) ==
    [k \in DOMAIN obj \cup DOMAIN target |->
        IF k \in DOMAIN obj THEN obj[k] ELSE target[k]]

\* delete profile[key] for every key of remove
Delete(profile, remove) == [k \in DOMAIN profile \ remove |-> profile[k]]

\* utility.error(promise, message): the failure carrying message
utility_error(message) == [ok |-> FALSE, err |-> message]

\* error(message) of the client: hands the message to utility.error
error(message) == utility_error(message)

\* what the runtime raises when a value that is no function is called, a
\* member of undefined or null is read, or JSON.parse is given no JSON
TypeError == [ok |-> FALSE, err |-> "TypeError"]

SyntaxError == [ok |-> FALSE, err |-> "SyntaxError"]

\* a promise chain that resolved with val, or was rejected with the failure
\* e; s is the settings object as the chain left it, log its events in order
Resolve(val, s, log) == [ok |-> TRUE, val |-> val, s |-> s, log |-> log]

Reject(e, s, log) == [ok |-> FALSE, err |-> e.err, s |-> s, log |-> log]

---------------------------------------------------------------------------
(* The provider and the transport.                                         *)

\* what utility.getJson is rejected with
FetchError == [transport_error |-> "ECONNREFUSED"]

\* the discovery document of the honest provider
GoodMetadata ==
    [issuer |-> "https://idp",
     authorization_endpoint |-> "https://idp/authorize",
     jwks_uri |-> "https://idp/jwks",
     userinfo_endpoint |-> "https://idp/userinfo"]

\* the certificate the provider signs with
ProviderCert == "c1"

RsaKey == [kty |-> "RSA", x5c |-> <<ProviderCert>>]

EcKey == [kty |-> "EC", x5c |-> <<"c2">>]

GoodJwks == [keys |-> <<RsaKey>>]

\* the userinfo claims of the honest provider
GoodUserinfo == [sub |-> "alice", name |-> "Alice", idp |-> "local"]

---------------------------------------------------------------------------
(* Scenarios: the honest one, and those that differ from it in a bounded   *)
(* number of members.  A deviation is a pair <<member, value>>.            *)

Fields(S) == {d[1] : d \in S}

\* the sets of at most n deviations drawn from D, no member twice
RECURSIVE DevSets(_, _)
DevSets(D, n) ==
    IF n = 0 THEN {{}}
    ELSE LET smaller == DevSets(D, n - 1)
         IN  smaller \cup
             UNION {{S \cup {d} : d \in {e \in D : e[1] \notin Fields(S)}} : S \in smaller}

\* base with the members named in S replaced
Override(base, S) ==
    [f \in DOMAIN base |->
        IF f \in Fields(S) THEN (CHOOSE d \in S : d[1] = f)[2] ELSE base[f]]

\* the number of members in which scenario a differs from scenario b
Differences(a, b) == Cardinality({f \in DOMAIN a : a[f] # b[f]})

\* the response types a client is configured with, split at white space;
\* <<>> is a response type that is not configured
ResponseTypes ==
    {<<>>, <<"id_token">>, <<"token">>, <<"code">>}

\* the configuration of a client of the honest provider, and the documents
\* the provider serves
HonestDeployment ==
    [authority |-> "https://idp",
     metadata |-> UndefinedObj,
     jwks |-> UndefinedObj,
     authorization_endpoint |-> Undefined,
     load_user_profile |-> Undefined,
     filter_protocol_claims |-> Undefined,
     provider_metadata |-> GoodMetadata,
     provider_jwks |-> GoodJwks]

DeploymentDeviations ==
    {<<"authority", Undefined>>,
     <<"metadata", GoodMetadata>>,
     <<"jwks", GoodJwks>>,
     <<"jwks", [keys |-> <<EcKey, RsaKey>>]>>,
     <<"authorization_endpoint", "https://idp/connect/authorize">>,
     <<"load_user_profile", "false">>,
     <<"filter_protocol_claims", "false">>,
     <<"provider_metadata", [GoodMetadata EXCEPT !.issuer = Undefined]>>,
     <<"provider_metadata", [GoodMetadata EXCEPT !.jwks_uri = Undefined]>>,
     <<"provider_metadata", [GoodMetadata EXCEPT !.userinfo_endpoint = Undefined]>>,
     <<"provider_metadata", [GoodMetadata EXCEPT !.authorization_endpoint = Undefined]>>,
     <<"provider_jwks", [keys |-> <<>>]>>,
     <<"provider_jwks", [keys |-> <<EcKey, RsaKey>>]>>,
     <<"provider_jwks", [keys |-> <<[kty |-> "RSA"]>>]>>}

Deployments == {Override(HonestDeployment, S) : S \in DevSets(DeploymentDeviations, MaxFaults)}

\* the serverSettings argument of the constructor in deployment d
ServerSettings(d, response_type) ==
    [authority |-> d.authority,
     metadata |-> d.metadata,
     jwks |-> d.jwks,
     authorization_endpoint |-> d.authorization_endpoint,
     load_user_profile |-> d.load_user_profile,
     filter_protocol_claims |-> d.filter_protocol_claims,
     response_type |-> response_type,
     client_id |-> "client1",
     redirect_uri |-> "https://app/cb",
     scope |-> "openid",
     request_state_key |-> Undefined]

---------------------------------------------------------------------------
(* The client.                                                             *)

WellKnown == "https://idp/.well-known/openid-configuration"

\* the constructor: a copy of serverSettings with the defaults filled in
OidcClient(ss) ==
    [ss EXCEPT
        !.request_state_key =
            IF Falsy(@) THEN "OidcClient.request_state" ELSE @,
        !.load_user_profile = IF @ = Undefined THEN TRUE ELSE @ = "true",
        !.filter_protocol_claims = IF @ = Undefined THEN TRUE ELSE @ = "true",
        !.authority =
            IF Falsy(@) \/ @ = WellKnown THEN @
            ELSE WellKnown,
        !.response_type = IF @ = <<>> THEN <<"id_token", "token">> ELSE @]

\* the keys of the request-state store
StoreKeys == {"OidcClient.request_state"}

\* what one handler call may still deviate by, given the deployment
Budget ==
    LET d == [f \in DOMAIN HonestDeployment |->
                 IF f = "provider_metadata" THEN provider.metadata
                 ELSE IF f = "provider_jwks" THEN provider.jwks
                 ELSE serverSettings[f]]
    IN  MaxFaults - Differences(d, HonestDeployment)

\* what the transport answers in one handler call: the provider's documents,
\* or a failure for those named in faults
Net(faults) ==
    [metadata |-> IF "metadata" \in faults THEN FetchError ELSE provider.metadata,
     jwks |-> IF "jwks" \in faults THEN FetchError ELSE provider.jwks,
     userinfo |-> IF "userinfo" \in faults THEN FetchError ELSE GoodUserinfo]

isOidc(s) == \E i \in 1..Len(s.response_type) : s.response_type[i] = "id_token"

\* variant: a member of the response type that contains "token" counts
isOauth_Contains(s) ==
    \E i \in 1..Len(s.response_type) : s.response_type[i] \in {"token", "id_token"}

isOauth(s) == \E i \in 1..Len(s.response_type) : s.response_type[i] = "token"

\* variant: the fetched metadata is not kept in the settings
loadMetadataAsync_NotKept(s, net, log) ==
    IF s.metadata # UndefinedObj THEN Resolve(s.metadata, s, log)
    ELSE IF Falsy(s.authority) THEN Reject(error("No authority configured"), s, log)
    ELSE LET fetched == Append(log, "fetch:metadata")
         IN  IF net.metadata = FetchError
             THEN Reject(error("Failed to load metadata (ECONNREFUSED)"), s, fetched)
             ELSE Resolve(net.metadata, s, fetched)

loadMetadataAsync(s, net, log) ==
    IF s.metadata # UndefinedObj THEN Resolve(s.metadata, s, log)
    ELSE IF Falsy(s.authority) THEN Reject(error("No authority configured"), s, log)
    ELSE LET fetched == Append(log, "fetch:metadata")
         IN  IF net.metadata = FetchError
             THEN Reject(error("Failed to load metadata (ECONNREFUSED)"), s, fetched)
             ELSE Resolve(net.metadata, [s EXCEPT !.metadata = net.metadata], fetched)

\* variant: the first RSA key of the set is taken
getKeyAsync_FirstRsa(jwks) ==
    IF "keys" \notin DOMAIN jwks \/ Len(jwks.keys) = 0
    THEN error("Signing keys empty")
    ELSE LET rsa == {i \in 1..Len(jwks.keys) : jwks.keys[i].kty = "RSA"}
         IN  IF rsa = {} THEN error("Signing key not RSA")
             ELSE LET key == jwks.keys[CHOOSE i \in rsa : \A j \in rsa : i <= j]
                  IN  IF "x5c" \notin DOMAIN key \/ Len(key.x5c) = 0
                      THEN error("RSA keys empty")
                      ELSE [ok |-> TRUE, val |-> key.x5c[1]]

\* the key set is a member keys holding a sequence of keys; a key has a kty
\* and may have a certificate chain x5c
getKeyAsync(jwks) ==
    IF "keys" \notin DOMAIN jwks \/ Len(jwks.keys) = 0
    THEN error("Signing keys empty")
    ELSE LET key == jwks.keys[1]
         IN  IF key.kty # "RSA" THEN error("Signing key not RSA")
             ELSE IF "x5c" \notin DOMAIN key \/ Len(key.x5c) = 0
                  THEN error("RSA keys empty")
                  ELSE [ok |-> TRUE, val |-> key.x5c[1]]

loadX509SigningKeyAsync(s, net, log) ==
    IF s.jwks # UndefinedObj
    THEN LET k == getKeyAsync(s.jwks)
         IN  IF k.ok THEN Resolve(k.val, s, log) ELSE Reject(k, s, log)
    ELSE LET m == loadMetadataAsync(s, net, log)
         IN  IF ~m.ok THEN m
             ELSE IF Falsy(m.val.jwks_uri)
                  THEN Reject(error("Metadata does not contain jwks_uri"), m.s, m.log)
                  ELSE LET fetched == Append(m.log, "fetch:jwks")
                       IN  IF net.jwks = FetchError
                           THEN Reject(error("Failed to load signing keys (ECONNREFUSED)"), m.s, fetched)
                           ELSE LET s2 == [m.s EXCEPT !.jwks = net.jwks]
                                    k == getKeyAsync(net.jwks)
                                IN  IF k.ok THEN Resolve(k.val, s2, fetched)
                                    ELSE Reject(k, s2, fetched)

\* net.userinfo is what utility.getJson yields for the userinfo endpoint
\* with the access token as bearer credential
loadUserProfile(s, net, access_token, log) ==
    LET m == loadMetadataAsync(s, net, log)
    IN  IF ~m.ok THEN m
        ELSE IF Falsy(m.val.userinfo_endpoint)
             THEN Reject([ok |-> FALSE, err |-> "Metadata does not contain userinfo_endpoint"],
                         m.s, m.log)
             ELSE LET fetched == Append(m.log, "fetch:userinfo")
                  IN  IF net.userinfo = FetchError
                      THEN Reject([ok |-> FALSE, err |-> FetchError.transport_error],
                                  m.s, fetched)
                      ELSE Resolve(net.userinfo, m.s, fetched)

\* A failure with a member thrown left the function as an exception, before
\* any promise existed.  The handler of the trailing catch names its
\* parameter error, so the call in it calls the rejection itself.
loadAuthorizationEndpoint(s, net, log) ==
    IF ~Falsy(s.authorization_endpoint) THEN Resolve(s.authorization_endpoint, s, log)
    ELSE IF Falsy(s.authority)
    THEN [thrown |-> TRUE] @@ Reject(error("No authorization_endpoint configured"), s, log)
    ELSE LET m == loadMetadataAsync(s, net, log)
         IN  IF ~m.ok THEN Reject(TypeError, m.s, m.log)
             ELSE IF Falsy(m.val.authorization_endpoint)
                  THEN Reject(TypeError, m.s, m.log)
                  ELSE Resolve(m.val.authorization_endpoint, m.s, m.log)

\* settings[key] is set to something that is not falsy
Configured(s, key) ==
    /\ key \in DOMAIN s
    /\ IF key = "response_type" THEN s[key] # <<>> ELSE ~Falsy(s[key])

\* "&" + key + "=" + encodeURIComponent(value) for the configured keys
RECURSIVE Params(_, _)
Params(s, keys) ==
    IF keys = <<>> THEN <<>>
    ELSE IF Configured(s, Head(keys))
         THEN <<<<Head(keys), encodeURIComponent(s[Head(keys)])>>>> \o Params(s, Tail(keys))
         ELSE Params(s, Tail(keys))

\* what utility.rand() may return for a state and for a nonce
RandStates == {"s1", "s2"}

RandNonces == {"n1", "n2"}

RequestStateKeys == <<"oidc", "oauth", "state", "nonce">>

StoreRequestState_KeepsFirst(st, key, text) ==
    IF st[key] = UndefinedObj THEN [st EXCEPT ![key] = text] ELSE st

\* this._settings.store.set(this._settings.request_state_key, text)
StoreRequestState(st, key, text) == [st EXCEPT ![key] = text]

\* state and nonce are the values utility.rand() returns; st is the store
createTokenRequestAsync(s, st, net, state, rand_nonce) ==
    LET ep == loadAuthorizationEndpoint(s, net, <<>>)
    IN  IF ~ep.ok
        THEN (IF "thrown" \in DOMAIN ep THEN ep ELSE Reject(TypeError, ep.s, ep.log))
                 @@ [store |-> st]
        ELSE LET nonce == IF isOidc(s) THEN rand_nonce ELSE Undefined
                 required == <<"client_id", "redirect_uri", "response_type", "scope">>
                 optional == <<"prompt", "display", "max_age", "ui_locales",
                               "id_token_hint", "login_hint", "acr_values",
                               "response_mode">>
                 url == [endpoint |-> ep.val,
                         query |-> <<<<"state", encodeURIComponent(state)>>>>
                                   \o (IF isOidc(s)
                                       THEN <<<<"nonce", encodeURIComponent(nonce)>>>>
                                       ELSE <<>>)
                                   \o Params(s, required) \o Params(s, optional)]
                 flags == [oidc |-> isOidc(s), oauth |-> isOauth(s), state |-> state]
                 request_state ==
                     IF ~Falsy(nonce) THEN [nonce |-> nonce] @@ flags ELSE flags
             IN  Resolve([request_state |-> request_state, url |-> url], ep.s, ep.log)
                 @@ [store |-> StoreRequestState(
                                   st, s.request_state_key,
                                   JSON_stringify(request_state, RequestStateKeys))]

\* an identity token is a JWS: the certificate of the key that signed it,
\* and its payload; verifyJWSByPemX509Cert holds when cert is that one
verifyJWSByPemX509Cert(id_token, cert) == id_token.signer = cert

\* a value utility.getJson resolved with that is an HTTP response
IsHttpResponse(profile) == "statusCode" \in DOMAIN profile

\* the checks of the claims of an identity token
\* variant: a token without a nonce is not compared
InvalidNonce_WhenPresent(nonce, id_token_contents) ==
    "nonce" \in DOMAIN id_token_contents /\ nonce # id_token_contents.nonce

InvalidNonce(nonce, id_token_contents) == nonce # Get(id_token_contents, "nonce")

InvalidIssuer(id_token_contents, metadata) ==
    Get(id_token_contents, "iss") # metadata.issuer

InvalidAudience(id_token_contents, s) ==
    Get(id_token_contents, "aud") # s.client_id

\* variant: a token of exactly 5 minutes is refused
IssuedTooLongAgo_Inclusive(id_token_contents, now) ==
    LET diff == now - id_token_contents.iat
    IN  diff >= 5 * 60

\* variant: the age of the token is taken with the operands exchanged
IssuedTooLongAgo_Exchanged(id_token_contents, now) ==
    LET diff == id_token_contents.iat - now
    IN  diff > 5 * 60

\* accept tokens issued up to 5 minutes ago
IssuedTooLongAgo(id_token_contents, now) ==
    LET diff == now - id_token_contents.iat
    IN  diff > 5 * 60

\* variant: a token that expires now is refused
Expired_Inclusive(id_token_contents, now) == id_token_contents.exp <= now

Expired(id_token_contents, now) == id_token_contents.exp < now

\* variant: whatever the userinfo request resolved with is merged
ThenProfile_AlwaysMerged(p, id_token_contents) ==
    IF ~p.ok THEN p
    ELSE Resolve(copy(p.val, id_token_contents), p.s, p.log)

\* the callback that is given the userinfo response: p is the outcome of
\* loadUserProfile
ThenProfile(p, id_token_contents) ==
    IF ~p.ok THEN p
    ELSE IF IsHttpResponse(p.val) THEN Resolve(id_token_contents, p.s, p.log)
    ELSE Resolve(copy(p.val, id_token_contents), p.s, p.log)

\* the callback that is given the metadata: m is the outcome of the second
\* loadMetadataAsync
ThenMetadata(m, net, id_token_contents, access_token) ==
    IF ~m.ok THEN m
    ELSE
    LET iss == Append(m.log, "check:iss")
        aud == Append(iss, "check:aud")
        iat == Append(aud, "check:iat")
        exp == Append(iat, "check:exp")
        now == Now
    IN  IF InvalidIssuer(id_token_contents, m.val)
        THEN Reject(error("Invalid issuer"), m.s, iss)
        ELSE IF InvalidAudience(id_token_contents, m.s)
        THEN Reject(error("Invalid audience"), m.s, aud)
        ELSE IF IssuedTooLongAgo(id_token_contents, now)
        THEN Reject(error("Token issued too long ago"), m.s, iat)
        ELSE IF Expired(id_token_contents, now)
        THEN Reject(error("Token expired"), m.s, exp)
        ELSE IF ~Falsy(access_token) /\ m.s.load_user_profile
        THEN ThenProfile(loadUserProfile(m.s, net, access_token, exp),
                         id_token_contents)
        ELSE Resolve(id_token_contents, m.s, exp)

\* the callback that is given the certificate: k is the outcome of
\* loadX509SigningKeyAsync
ThenCert(k, net, id_token, nonce, access_token) ==
    IF ~k.ok THEN k
    ELSE
    LET verified == Append(k.log, "verify:signature")
        id_token_contents == id_token.payload
    IN  IF ~verifyJWSByPemX509Cert(id_token, k.val)
        THEN Reject(error("JWT failed to validate"), k.s, verified)
        ELSE IF InvalidNonce(nonce, id_token_contents)
        THEN Reject(error("Invalid nonce"), k.s, Append(verified, "check:nonce"))
        ELSE ThenMetadata(
                 loadMetadataAsync(k.s, net, Append(verified, "check:nonce")),
                 net, id_token_contents, access_token)

validateIdTokenAsync(s, net, id_token, nonce, access_token, log) ==
    ThenCert(loadX509SigningKeyAsync(s, net, log), net, id_token, nonce, access_token)

validateAccessTokenAsync(id_token_contents, access_token) ==
    IF Falsy(Get(id_token_contents, "at_hash")) THEN error("No at_hash in id_token")
    ELSE IF LeftHashB64u(access_token) # id_token_contents.at_hash
         THEN error("at_hash failed to validate")
         ELSE [ok |-> TRUE]

\* the callback that is given the claims: v is the outcome of
\* validateIdTokenAsync
ThenContents(v, access_token) ==
    IF ~v.ok THEN v
    ELSE IF ~validateAccessTokenAsync(v.val, access_token).ok
    THEN Reject(validateAccessTokenAsync(v.val, access_token), v.s,
                Append(v.log, "check:at_hash"))
    ELSE Resolve(v.val, v.s, Append(v.log, "check:at_hash"))

\* variant: the access token is bound before the identity token is verified
validateIdTokenAndAccessTokenAsync_BindingFirst(s, net, id_token, nonce, access_token, log) ==
    LET bound == Append(log, "check:at_hash")
    IN  IF ~validateAccessTokenAsync(id_token.payload, access_token).ok
        THEN Reject(validateAccessTokenAsync(id_token.payload, access_token), s, bound)
        ELSE validateIdTokenAsync(s, net, id_token, nonce, access_token, bound)

\* variant: the access token is bound to the at_hash of the token's payload
validateIdTokenAndAccessTokenAsync_OwnAtHash(s, net, id_token, nonce, access_token, log) ==
    LET v == validateIdTokenAsync(s, net, id_token, nonce, access_token, log)
        bound == validateAccessTokenAsync(id_token.payload, access_token)
    IN  IF ~v.ok THEN v
        ELSE IF ~bound.ok THEN Reject(bound, v.s, Append(v.log, "check:at_hash"))
        ELSE Resolve(v.val, v.s, Append(v.log, "check:at_hash"))

validateIdTokenAndAccessTokenAsync(s, net, id_token, nonce, access_token, log) ==
    ThenContents(validateIdTokenAsync(s, net, id_token, nonce, access_token, log),
                 access_token)

toLowerCase(str) == IF str = "Bearer" THEN "bearer" ELSE str

\* the checks of the callback against the request state
\* variant: a callback without a state is not compared
StateMismatch_WhenPresent(result, request_state) ==
    ~Falsy(result.state) /\ result.state # request_state.state

StateMismatch(result, request_state) == result.state # request_state.state

InvalidTokenType(result) ==
    Falsy(result.token_type) \/ toLowerCase(result.token_type) # "bearer"

\* variant: the entry is left in the store
ClearRequestState_Kept(st, key) == st

\* request_state_store.set(key) with no value
ClearRequestState(st, key) == [st EXCEPT ![key] = UndefinedObj]

\* request_state.oidc and request_state.oauth as conditions
Flag(request_state, k) == k \in DOMAIN request_state /\ request_state[k]

ProtocolClaims == {"nonce", "at_hash", "iat", "nbf", "exp", "aud", "iss", "idp"}

\* the callback that is given the profile: localPromise is the outcome of the
\* verification that was dispatched
ThenSession(localPromise, result) ==
    IF ~localPromise.ok THEN localPromise
    ELSE Resolve([profile |->
                      IF localPromise.val # UndefinedObj
                         /\ localPromise.s.filter_protocol_claims
                      THEN Delete(localPromise.val, ProtocolClaims)
                      ELSE localPromise.val,
                  id_token |-> result.id_token,
                  access_token |-> result.access_token,
                  expires_in |-> result.expires_in,
                  scope |-> result.scope,
                  session_state |-> result.session_state],
                 localPromise.s, localPromise.log)

\* variant: the access token goes to the verification of the identity token
\* also when the request state has no oauth
Dispatch_PassesAccessToken(request_state, s, net, result) ==
    IF Flag(request_state, "oidc") /\ Flag(request_state, "oauth")
    THEN validateIdTokenAndAccessTokenAsync(
             s, net, result.id_token, request_state.nonce,
             result.access_token, <<>>)
    ELSE IF Flag(request_state, "oidc")
    THEN validateIdTokenAsync(
             s, net, result.id_token, request_state.nonce,
             result.access_token, <<>>)
    ELSE Resolve(UndefinedObj, s, <<>>)

\* localPromise: the verification the request state asks for
Dispatch(request_state, s, net, result) ==
    IF Flag(request_state, "oidc") /\ Flag(request_state, "oauth")
    THEN validateIdTokenAndAccessTokenAsync(
             s, net, result.id_token, request_state.nonce,
             result.access_token, <<>>)
    ELSE IF Flag(request_state, "oidc")
    THEN validateIdTokenAsync(
             s, net, result.id_token, request_state.nonce,
             Undefined, <<>>)
    ELSE Resolve(UndefinedObj, s, <<>>)

\* processResponseAsync from the parsed request state on; st2 is the store
\* as the read of the request state left it
Parsed(request_state, s, st2, net, result) ==
    LET fail(e) == Reject(e, s, <<>>) @@ [store |-> st2]
    IN      IF request_state = Null THEN fail(error("No request state loaded"))
            ELSE IF Falsy(Get(request_state, "state")) THEN fail(error("No state loaded"))
            ELSE IF result = Null THEN fail(error("No OIDC response"))
            ELSE IF ~Falsy(result.error) THEN fail(error(result.error))
            ELSE IF StateMismatch(result, request_state)
            THEN fail(error("Invalid state"))
            ELSE IF Flag(request_state, "oidc") /\ result.id_token = UndefinedObj
            THEN fail(error("No identity token"))
            ELSE IF Flag(request_state, "oidc") /\ Falsy(Get(request_state, "nonce"))
            THEN fail(error("No nonce loaded"))
            ELSE IF Flag(request_state, "oauth") /\ Falsy(result.access_token)
            THEN fail(error("No access token"))
            ELSE IF Flag(request_state, "oauth") /\ InvalidTokenType(result)
            THEN fail(error("Invalid token type"))
            ELSE IF Flag(request_state, "oauth") /\ Falsy(result.expires_in)
            THEN fail(error("No token expiration"))
            ELSE
            ThenSession(Dispatch(request_state, s, net, result), result)
                @@ [store |-> st2]

\* variant: the entry of the store is cleared whether or not a requestState
\* is given
processResponseAsync_AlwaysCleared(s, st, net, result, requestState) ==
    LET key == s.request_state_key
        text == IF requestState = UndefinedObj THEN st[key] ELSE requestState
        st2 == ClearRequestState(st, key)
        fail(e) == Reject(e, s, <<>>) @@ [store |-> st2]
    IN  IF text = UndefinedObj THEN fail(error("No request state loaded"))
        ELSE IF ~IsJSON(text) THEN fail(SyntaxError)
        ELSE Parsed(JSON_parse(text), s, st2, net, result)

\* result is the callback, or Null; requestState is the text of a request
\* state, or UndefinedObj when the argument is not given; st is the store
processResponseAsync(s, st, net, result, requestState) ==
    LET key == s.request_state_key
        text == IF requestState = UndefinedObj THEN st[key] ELSE requestState
        st2 == IF requestState = UndefinedObj
               THEN ClearRequestState(st, key) ELSE st
        fail(e) == Reject(e, s, <<>>) @@ [store |-> st2]
    IN  IF text = UndefinedObj THEN fail(error("No request state loaded"))
        ELSE IF ~IsJSON(text) THEN fail(SyntaxError)
        ELSE Parsed(JSON_parse(text), s, st2, net, result)

---------------------------------------------------------------------------
(* The calls of the handlers.                                              *)

\* the text of a request state
RequestStateText(oidc, oauth, state, nonce) ==
    JSON_stringify(
        (IF nonce = Undefined THEN <<>> ELSE [nonce |-> nonce])
            @@ [oidc |-> oidc, oauth |-> oauth, state |-> state],
        <<"oidc", "oauth", "state", "nonce">>)

\* One call of processResponseAsync, member by member: the requestState
\* argument, the callback (result_null: the callback is null), the claims
\* and the signer of its identity token, and what the transport answers.
\* The honest call for request state rs gives no requestState argument and
\* carries the callback of the honest provider for rs.
HonestCall(rs) ==
    LET oidc == "oidc" \in DOMAIN rs /\ rs.oidc
        oauth == "oauth" \in DOMAIN rs /\ rs.oauth
    IN  [requestState |-> UndefinedObj,
         result_null |-> FALSE,
         state |-> Get(rs, "state"),
         error |-> Undefined,
         id_token_present |-> oidc,
         signer |-> ProviderCert,
         nonce |-> Get(rs, "nonce"),
         iss |-> GoodMetadata.issuer,
         aud |-> "client1",
         iat |-> Now,
         exp |-> Now + 60,
         at_hash |-> IF oauth THEN LeftHashB64u("at1") ELSE Undefined,
         access_token |-> IF oauth THEN "at1" ELSE Undefined,
         token_type |-> IF oauth THEN "Bearer" ELSE Undefined,
         expires_in |-> IF oauth THEN "3600" ELSE Undefined,
         transport_metadata |-> "ok",
         transport_jwks |-> "ok",
         userinfo |-> GoodUserinfo]

CallDeviations ==
    {<<"requestState", RequestStateText(TRUE, TRUE, "s1", "n1")>>,
     <<"requestState", RequestStateText(TRUE, TRUE, "s1", Undefined)>>,
     <<"requestState", RequestStateText(TRUE, TRUE, "", "n1")>>,
     <<"requestState", JSON_null>>,
     <<"requestState", NotJSON>>,
     <<"result_null", TRUE>>,
     <<"state", "s2">>, <<"state", Undefined>>,
     <<"error", "access_denied">>,
     <<"id_token_present", TRUE>>, <<"id_token_present", FALSE>>,
     <<"signer", "cX">>,
     <<"nonce", "n2">>, <<"nonce", Undefined>>,
     <<"iss", "https://evil">>,
     <<"aud", "client2">>,
     <<"iat", Now - 5 * 60>>, <<"iat", Now - 5 * 60 - 1>>,
     <<"exp", Now>>, <<"exp", Now - 1>>,
     <<"at_hash", LeftHashB64u("at2")>>, <<"at_hash", Undefined>>,
     <<"access_token", "at2">>, <<"access_token", Undefined>>,
     <<"token_type", "bearer">>, <<"token_type", "mac">>,
     <<"token_type", Undefined>>,
     <<"expires_in", Undefined>>,
     <<"transport_metadata", "fail">>,
     <<"transport_jwks", "fail">>,
     <<"userinfo", FetchError>>,
     <<"userinfo", [statusCode |-> 401]>>,
     <<"userinfo", [at_hash |-> LeftHashB64u("at2")] @@ GoodUserinfo>>}

CallDeviationSets == [n \in 0..MaxFaults |-> DevSets(CallDeviations, n)]

\* the members of a call that deviates from the honest one by S, in a state
\* where the store holds stored under the request-state key
CallMembers(S, stored, s) ==
    LET explicit == IF "requestState" \in Fields(S)
                    THEN (CHOOSE d \in S : d[1] = "requestState")[2]
                    ELSE UndefinedObj
        text == IF explicit = UndefinedObj THEN stored ELSE explicit
        rs == IF text # UndefinedObj /\ IsJSON(text) /\ text # JSON_null
              THEN JSON_parse(text)
              ELSE [oidc |-> isOidc(s), oauth |-> isOauth(s),
                    state |-> "s1", nonce |-> "n1"]
    IN  Override(HonestCall(rs), S)

\* the identity token of a call
IdToken(c) ==
    [signer |-> c.signer,
     payload |->
         (IF c.nonce = Undefined THEN <<>> ELSE [nonce |-> c.nonce])
         @@ (IF c.at_hash = Undefined THEN <<>> ELSE [at_hash |-> c.at_hash])
         @@ [sub |-> "alice", iss |-> c.iss, aud |-> c.aud,
             iat |-> c.iat, exp |-> c.exp]]

\* the callback of a call
CallbackResult(c) ==
    IF c.result_null THEN Null
    ELSE [state |-> c.state,
          error |-> c.error,
          id_token |-> IF c.id_token_present THEN IdToken(c) ELSE UndefinedObj,
          access_token |-> c.access_token,
          token_type |-> c.token_type,
          expires_in |-> c.expires_in,
          scope |-> "openid",
          session_state |-> "ss1"]

\* what the transport answers in a call
CallNet(c) ==
    [metadata |-> IF c.transport_metadata = "fail" THEN FetchError
                  ELSE provider.metadata,
     jwks |-> IF c.transport_jwks = "fail" THEN FetchError ELSE provider.jwks,
     userinfo |-> c.userinfo]

\* No handler is running: the promise of the last one has settled and its
\* caller has taken the outcome.  A handler is started only then.
Idle == [op |-> "idle"]

Init ==
    \E d \in Deployments, rt \in ResponseTypes :
        /\ serverSettings = ServerSettings(d, rt)
        /\ settings = OidcClient(serverSettings)
        /\ provider = [metadata |-> d.provider_metadata, jwks |-> d.provider_jwks]
        /\ store = [k \in StoreKeys |-> UndefinedObj]
        /\ call = Idle
        /\ lastStoreAccess = "none"
        /\ attempts = <<>>

\* a direct call of loadMetadataAsync
LoadMetadataAsync ==
    /\ call.op = "idle"
    /\ \E faults \in {F \in SUBSET {"metadata"} : Cardinality(F) <= Budget} :
        \E r \in {loadMetadataAsync(settings, Net(faults), <<>>)} :
            /\ settings' = r.s
            /\ call' = [op |-> "loadMetadataAsync", net |-> Net(faults),
                         outcome |-> r]
            /\ UNCHANGED <<serverSettings, provider, store, lastStoreAccess, attempts>>

\* a direct call of loadX509SigningKeyAsync
LoadX509SigningKeyAsync ==
    /\ call.op = "idle"
    /\ \E faults \in {F \in SUBSET {"metadata", "jwks"} : Cardinality(F) <= Budget} :
        \E r \in {loadX509SigningKeyAsync(settings, Net(faults), <<>>)} :
            /\ settings' = r.s
            /\ call' = [op |-> "loadX509SigningKeyAsync", net |-> Net(faults),
                         outcome |-> r]
            /\ UNCHANGED <<serverSettings, provider, store, lastStoreAccess, attempts>>

CreateTokenRequestAsync ==
    /\ call.op = "idle"
    /\ \E faults \in {F \in SUBSET {"metadata"} : Cardinality(F) <= Budget},
       state \in RandStates, nonce \in RandNonces :
        \E r \in {createTokenRequestAsync(settings, store, Net(faults), state, nonce)} :
            /\ settings' = r.s
            /\ store' = r.store
            /\ call' = [op |-> "createTokenRequestAsync", net |-> Net(faults),
                         outcome |-> r]
            /\ lastStoreAccess' = IF r.ok THEN "written" ELSE lastStoreAccess
            /\ UNCHANGED <<serverSettings, provider, attempts>>

ProcessResponseAsync ==
    /\ call.op = "idle"
    /\ \E c \in {CallMembers(S, store[settings.request_state_key], settings) :
                     S \in CallDeviationSets[Budget]} :
        \E net \in {CallNet(c)}, result \in {CallbackResult(c)} :
        \E r \in {processResponseAsync(settings, store, net, result, c.requestState)} :
            /\ settings' = r.s
            /\ store' = r.store
            /\ call' = [op |-> "processResponseAsync", result |-> result,
                         requestState |-> c.requestState, net |-> net,
                         stored |-> store[settings.request_state_key],
                         previousStoreAccess |-> lastStoreAccess,
                         outcome |-> r]
            /\ lastStoreAccess' =
                   IF c.requestState # UndefinedObj THEN lastStoreAccess
                   ELSE IF store[settings.request_state_key] = UndefinedObj
                        THEN "read: no entry"
                        ELSE "read: entry"
            /\ UNCHANGED <<serverSettings, provider, attempts>>

\* A direct call of validateIdTokenAsync with the nonce "n1": the honest
\* call carries the identity token and the access token of the honest
\* provider for that nonce.
VerifyDeviationSets ==
    [n \in 0..MaxFaults |->
        DevSets({d \in CallDeviations :
                    d[1] \in {"signer", "nonce", "iss", "aud", "iat", "exp",
                              "access_token", "transport_metadata",
                              "transport_jwks", "userinfo"}}, n)]

VerifyMembers(S) ==
    Override(HonestCall([oidc |-> TRUE, oauth |-> TRUE, state |-> "s1",
                         nonce |-> "n1"]), S)

ValidateIdTokenAsync ==
    /\ call.op = "idle"
    /\ \E c \in {VerifyMembers(S) : S \in VerifyDeviationSets[Budget]} :
        \E net \in {CallNet(c)}, id_token \in {IdToken(c)} :
        \E r \in {validateIdTokenAsync(settings, net, id_token, "n1",
                                        c.access_token, <<>>)} :
            /\ settings' = r.s
            /\ call' = [op |-> "validateIdTokenAsync", id_token |-> id_token,
                         nonce |-> "n1", access_token |-> c.access_token,
                         net |-> net, outcome |-> r]
            /\ UNCHANGED <<serverSettings, provider, store, lastStoreAccess, attempts>>

\* the caller takes the outcome of the handler
Settle ==
    /\ call.op # "idle"
    /\ call' = Idle
    /\ UNCHANGED <<serverSettings, settings, provider, store, lastStoreAccess,
                   attempts>>

Next ==
    \/ Settle
    \/ ProcessResponseAsync
    \/ ValidateIdTokenAsync
    \/ LoadMetadataAsync
    \/ LoadX509SigningKeyAsync
    \/ CreateTokenRequestAsync

Spec == Init /\ [][Next]_vars

---------------------------------------------------------------------------
(* The selection of the signing key, over every key set of up to MaxKeys   *)
(* keys: the key set is configured, or it is the one the provider serves.  *)

KeyChoices ==
    {[kty |-> "RSA", x5c |-> <<ProviderCert>>],
     [kty |-> "RSA", x5c |-> <<"c3", ProviderCert>>],
     [kty |-> "RSA", x5c |-> <<>>],
     [kty |-> "RSA"],
     [kty |-> "EC", x5c |-> <<"c2">>],
     [kty |-> "oct"]}

KeySets ==
    UNION {[1..n -> KeyChoices] : n \in 0..MaxKeys}

InitKeys ==
    \E keys \in KeySets, configured \in BOOLEAN :
        LET jwks == [keys |-> keys]
            d == IF configured THEN [HonestDeployment EXCEPT !.jwks = jwks]
                 ELSE [HonestDeployment EXCEPT !.provider_jwks = jwks]
        IN  /\ serverSettings = ServerSettings(d, <<>>)
            /\ settings = OidcClient(serverSettings)
            /\ provider = [metadata |-> d.provider_metadata,
                            jwks |-> d.provider_jwks]
            /\ store = [k \in StoreKeys |-> UndefinedObj]
            /\ call = Idle
            /\ lastStoreAccess = "none"
            /\ attempts = <<>>

\* a call of loadX509SigningKeyAsync that no transport failure disturbs
ResolveSigningKey ==
    /\ call.op = "idle"
    /\ \E r \in {loadX509SigningKeyAsync(settings, Net({}), <<>>)} :
            /\ settings' = r.s
            /\ call' = [op |-> "loadX509SigningKeyAsync", net |-> Net({}),
                         outcome |-> r]
            /\ UNCHANGED <<serverSettings, provider, store, lastStoreAccess, attempts>>

NextKeys ==
    \/ Settle
    \/ ResolveSigningKey

SpecKeys == InitKeys /\ [][NextKeys]_vars

---------------------------------------------------------------------------
(* Sign-in attempts that share one store: requests are built and callbacks *)
(* are processed in any order, up to MaxEvents of them, against the honest *)
(* provider.  Every callback is the honest one for the request state the   *)
(* store holds, but for the state it carries, which is that of any request *)
(* ever built.                                                             *)

\* At most this many requests and callbacks in one history.  Four let two
\* requests be built and both of their callbacks be processed.
MaxEvents == 4

InitAttempts ==
    \E rt \in ResponseTypes :
        /\ serverSettings = ServerSettings(HonestDeployment, rt)
        /\ settings = OidcClient(serverSettings)
        /\ provider = [metadata |-> HonestDeployment.provider_metadata,
                        jwks |-> HonestDeployment.provider_jwks]
        /\ store = [k \in StoreKeys |-> UndefinedObj]
        /\ call = Idle
        /\ lastStoreAccess = "none"
        /\ attempts = <<>>

\* a call of createTokenRequestAsync that no transport failure disturbs
BuildRequest ==
    /\ call.op = "idle"
    /\ Len(attempts) < MaxEvents
    /\ \E state \in RandStates, nonce \in RandNonces :
        \E r \in {createTokenRequestAsync(settings, store, Net({}), state, nonce)} :
            /\ settings' = r.s
            /\ store' = r.store
            /\ call' = [op |-> "createTokenRequestAsync", net |-> Net({}),
                         outcome |-> r]
            /\ lastStoreAccess' = IF r.ok THEN "written" ELSE lastStoreAccess
            /\ attempts' = Append(attempts, [op |-> "build", ok |-> r.ok,
                                             state |-> state])
            /\ UNCHANGED <<serverSettings, provider>>

\* a call of processResponseAsync without a requestState argument, for the
\* callback that carries state
ProcessCallback ==
    /\ call.op = "idle"
    /\ Len(attempts) < MaxEvents
    /\ \E state \in RandStates :
        \E c \in {CallMembers({<<"state", state>>},
                              store[settings.request_state_key], settings)} :
        \E net \in {CallNet(c)}, result \in {CallbackResult(c)} :
        \E r \in {processResponseAsync(settings, store, net, result, UndefinedObj)} :
            /\ settings' = r.s
            /\ store' = r.store
            /\ call' = [op |-> "processResponseAsync", result |-> result,
                         requestState |-> UndefinedObj, net |-> net,
                         stored |-> store[settings.request_state_key],
                         previousStoreAccess |-> lastStoreAccess,
                         outcome |-> r]
            /\ lastStoreAccess' =
                   IF store[settings.request_state_key] = UndefinedObj
                   THEN "read: no entry"
                   ELSE "read: entry"
            /\ attempts' = Append(attempts,
                                  [op |-> "callback", ok |-> r.ok, state |-> state,
                                   err |-> IF r.ok THEN "" ELSE r.err])
            /\ UNCHANGED <<serverSettings, provider>>

NextAttempts ==
    \/ Settle
    \/ BuildRequest
    \/ ProcessCallback

SpecAttempts == InitAttempts /\ [][NextAttempts]_vars

---------------------------------------------------------------------------
(* Properties.                                                             *)

\* what a call of processResponseAsync worked on: the text of the request
\* state it used, and the request state that text parses to
UsedText == IF call.requestState = UndefinedObj THEN call.stored ELSE call.requestState

UsedAvailable ==
    /\ call.op = "processResponseAsync"
    /\ UsedText # UndefinedObj
    /\ IsJSON(UsedText)
    /\ UsedText # JSON_null

UsedRequestState == JSON_parse(UsedText)

FromStore == call.op = "processResponseAsync" /\ call.requestState = UndefinedObj

FailsWith(message) == ~call.outcome.ok /\ call.outcome.err = message

\* the case of C1: a request state with a non-empty state is available, the
\* callback is not null, and its state differs from the stored one
C1_Case ==
    /\ UsedAvailable
    /\ ~Falsy(Get(UsedRequestState, "state"))
    /\ call.result # Null
    /\ call.result.state # UsedRequestState.state

\* C1 as stated: whenever a request state with a non-empty state is
\* available and the callback is not null, a callback whose state differs
\* from the stored one makes processResponseAsync fail with "Invalid state",
\* whatever the other members of the callback are.
C1_Original == C1_Case => FailsWith("Invalid state")

\* C1: whenever a request state with a non-empty state is available and the
\* callback is not null, a callback whose state differs from the stored one
\* never succeeds: processResponseAsync fails with the error the callback
\* carries when it carries one, and with "Invalid state" otherwise, whatever
\* the other members of the callback are.
C1_Amended ==
    C1_Case =>
        FailsWith(IF ~Falsy(call.result.error) THEN call.result.error
                  ELSE "Invalid state")

\* a callback with a foreign state, and everything else as the honest
\* provider sends it, was refused with "Invalid state"
C1_Witness ==
    /\ C1_Case
    /\ Falsy(call.result.error)
    /\ call.result.id_token # UndefinedObj
    /\ call.result.id_token.signer = ProviderCert
    /\ FailsWith("Invalid state")

\* C2 as stated: a request state is consumed by the call that succeeds with
\* it, however it was supplied: once a call has succeeded, a second call
\* with the same request state and the same callback does not succeed.
C2_Original ==
    (call.op = "processResponseAsync" /\ call.outcome.ok) =>
        ~processResponseAsync(settings, store, call.net, call.result,
                              call.requestState).ok

\* C2: a request state read from the store is consumed by the call that
\* reads it: a call without the requestState argument succeeds only when
\* the last access to the entry of the store was the write of
\* createTokenRequestAsync, so no second call succeeds with the same entry.
C2_Amended ==
    (FromStore /\ call.outcome.ok) => call.previousStoreAccess = "written"

\* a call without the requestState argument succeeded and left no entry
C2_Witness ==
    /\ FromStore
    /\ call.outcome.ok
    /\ call.previousStoreAccess = "written"
    /\ store[settings.request_state_key] = UndefinedObj

\* C3: a call of processResponseAsync without the requestState argument
\* that follows another such call, with no createTokenRequestAsync storing
\* a request state in between, finds no entry and fails with "No request
\* state loaded", whatever the callback is.
C3_SecondCallFindsNothing ==
    (FromStore /\ call.previousStoreAccess \in {"read: entry", "read: no entry"}) =>
        /\ call.stored = UndefinedObj
        /\ FailsWith("No request state loaded")
        /\ store[settings.request_state_key] = UndefinedObj

\* the first call read the entry createTokenRequestAsync stored, the second
\* one came with the callback of the honest provider and failed
C3_Witness ==
    /\ FromStore
    /\ call.previousStoreAccess = "read: entry"
    /\ call.result # Null
    /\ call.result.state = "s1"
    /\ call.result.id_token # UndefinedObj
    /\ FailsWith("No request state loaded")

\* a verification of an identity token resolved with claims: a direct call
\* of validateIdTokenAsync, or a call of processResponseAsync for a request
\* state with oidc set
ClaimsReturned ==
    \/ call.op = "validateIdTokenAsync" /\ call.outcome.ok
    \/ /\ UsedAvailable
       /\ Flag(UsedRequestState, "oidc")
       /\ call.outcome.ok

VerifiedToken ==
    IF call.op = "validateIdTokenAsync" THEN call.id_token ELSE call.result.id_token

\* the client holds a key set whose first key has a certificate
HoldsCertificate ==
    /\ settings.jwks # UndefinedObj
    /\ "keys" \in DOMAIN settings.jwks
    /\ Len(settings.jwks.keys) > 0
    /\ "x5c" \in DOMAIN settings.jwks.keys[1]
    /\ Len(settings.jwks.keys[1].x5c) > 0

C5_AccessTokenBound ==
    (UsedAvailable /\ call.outcome.ok
        /\ Flag(UsedRequestState, "oidc") /\ Flag(UsedRequestState, "oauth")) =>
        /\ "at_hash" \in DOMAIN call.result.id_token.payload
        /\ call.result.id_token.payload.at_hash
               = LeftHashB64u(call.result.access_token)

\* the case of C6: the configuration is the honest one for either setting of
\* load_user_profile and filter_protocol_claims, the provider serves its
\* documents, createTokenRequestAsync stored a request state, and the next
\* access to the store is a processResponseAsync without the requestState
\* argument, given the callback of the honest provider for that request
\* state; the userinfo endpoint answers
C6_Case ==
    /\ FromStore
    /\ call.previousStoreAccess = "written"
    /\ UsedAvailable
    /\ \E lup, fpc \in {Undefined, "false"} :
           serverSettings =
               ServerSettings([HonestDeployment EXCEPT
                                  !.load_user_profile = lup,
                                  !.filter_protocol_claims = fpc],
                              serverSettings.response_type)
    /\ provider = [metadata |-> GoodMetadata, jwks |-> GoodJwks]
    /\ call.net.metadata = GoodMetadata
    /\ call.net.jwks = GoodJwks
    /\ call.net.userinfo # FetchError
    /\ call.result = CallbackResult(HonestCall(UsedRequestState))

\* C6: a createTokenRequestAsync followed by a processResponseAsync without
\* the requestState argument, with a callback whose state is the stored one
\* and whose tokens are the honest provider's, succeeds, and with
\* filter_protocol_claims set the profile has none of the keys nonce,
\* at_hash, iat, nbf, exp, aud, iss, idp.
C6_RoundTrip ==
    C6_Case =>
        /\ call.outcome.ok
        /\ (settings.filter_protocol_claims /\ call.outcome.val.profile # UndefinedObj) =>
               DOMAIN call.outcome.val.profile \cap ProtocolClaims = {}

\* the spellings of a token type that lower-case to "bearer"
BearerSpellings == {"bearer", "Bearer", "BEARER"}

\* the first step of processResponseAsync, in the order of C7, that the
\* request state and the callback of the call fail; "none" when all pass
FirstFailingStep ==
    LET rs == UsedRequestState
        r == call.result
        oidc == Flag(rs, "oidc")
        oauth == Flag(rs, "oauth")
    IN  IF UsedText = UndefinedObj \/ ~IsJSON(UsedText) \/ UsedText = JSON_null
        THEN "No request state loaded"
        ELSE IF Falsy(Get(rs, "state")) THEN "No state loaded"
        ELSE IF r = Null THEN "No OIDC response"
        ELSE IF ~Falsy(r.error) THEN r.error
        ELSE IF r.state # rs.state THEN "Invalid state"
        ELSE IF oidc /\ r.id_token = UndefinedObj THEN "No identity token"
        ELSE IF oidc /\ Falsy(Get(rs, "nonce")) THEN "No nonce loaded"
        ELSE IF oauth /\ Falsy(r.access_token) THEN "No access token"
        ELSE IF oauth /\ r.token_type \notin BearerSpellings THEN "Invalid token type"
        ELSE IF oauth /\ Falsy(r.expires_in) THEN "No token expiration"
        ELSE "none"

StepMessages ==
    {"No request state loaded", "No state loaded", "No OIDC response",
     "Invalid state", "No identity token", "No nonce loaded", "No access token",
     "Invalid token type", "No token expiration"}

\* C7: processResponseAsync fails with the error of the first failing step
\* in the order: no request state (none stored or given, or one that does
\* not parse), no state, no callback, the error of the callback, state
\* mismatch, then with oidc no identity token, no nonce, then with oauth no
\* access token, token type not "bearer" in any case, no expiration; it
\* then fetches and verifies nothing.  When every step passes it fails with
\* none of these errors.
C7_EarliestFailingStep ==
    call.op = "processResponseAsync" =>
        IF FirstFailingStep = "none"
        THEN call.outcome.ok \/ call.outcome.err \notin StepMessages
        ELSE FailsWith(FirstFailingStep) /\ call.outcome.log = <<>>

\* the order of C7 is kept whenever the text of the request state is
\* absent or parses
C7_OrderWhenParsed ==
    (call.op = "processResponseAsync" /\ (UsedText = UndefinedObj \/ IsJSON(UsedText)))
        => C7_EarliestFailingStep

\* the number of times event e is in log
Times(log, e) == Cardinality({i \in DOMAIN log : log[i] = e})

\* C8: a handler fetches the metadata at most once; it does not fetch it
\* when the configuration supplied it or an earlier fetch left it in the
\* settings, and loadMetadataAsync then resolves with that document; a
\* fetch that succeeds leaves the document in the settings, one that fails
\* leaves none; with neither metadata nor authority, loadMetadataAsync
\* fails with "No authority configured" and fetches nothing.
C8_MetadataCached ==
    [][call'.op # "idle" =>
          LET n == Times(call'.outcome.log, "fetch:metadata")
              direct == call'.op = "loadMetadataAsync"
          IN  /\ n <= 1
              /\ serverSettings.metadata # UndefinedObj => n = 0
              /\ settings.metadata # UndefinedObj =>
                     n = 0 /\ settings'.metadata = settings.metadata
              /\ (direct /\ settings.metadata # UndefinedObj) =>
                     call'.outcome.ok /\ call'.outcome.val = settings.metadata
              /\ (n = 1 /\ call'.net.metadata # FetchError) =>
                     settings'.metadata = call'.net.metadata
              /\ (n = 1 /\ call'.net.metadata = FetchError) =>
                     settings'.metadata = UndefinedObj
              /\ (direct /\ settings.metadata = UndefinedObj /\ Falsy(settings.authority)) =>
                     /\ ~call'.outcome.ok
                     /\ call'.outcome.err = "No authority configured"
                     /\ n = 0
    ]_vars

\* a handler that verified a token and loaded the user profile took the
\* metadata an earlier call had fetched, and fetched none
C8_Witness ==
    /\ call.op \in {"processResponseAsync", "validateIdTokenAsync"}
    /\ serverSettings.metadata = UndefinedObj
    /\ Times(call.outcome.log, "check:iss") = 1
    /\ Times(call.outcome.log, "fetch:userinfo") = 1
    /\ Times(call.outcome.log, "fetch:metadata") = 0

\* the values of parameter k of a URL
Param(url, k) ==
    {decodeURIComponent(url.query[i][2]) :
        i \in {j \in DOMAIN url.query : url.query[j][1] = k}}

\* C9: after a createTokenRequestAsync that succeeds, the entry of the
\* store under the request-state key is the text of the returned request
\* state; its state is the state parameter of the URL, oidc is set exactly
\* when the response type has the member "id_token", oauth exactly when it
\* has the member "token", and it has a nonce, the nonce parameter of the
\* URL, exactly when oidc is set; the URL leads to the configured or the
\* published authorization endpoint.  A createTokenRequestAsync that fails
\* leaves the store as it was.
C9_RequestStateStored ==
    [][call'.op = "createTokenRequestAsync" =>
          IF call'.outcome.ok
          THEN LET rs == call'.outcome.val.request_state
                   url == call'.outcome.val.url
                   entry == store'[settings.request_state_key]
                   rt == settings.response_type
               IN  /\ entry # UndefinedObj
                   /\ IsJSON(entry)
                   /\ JSON_parse(entry) = rs
                   /\ Param(url, "state") = {rs.state}
                   /\ rs.oidc <=> \E i \in DOMAIN rt : rt[i] = "id_token"
                   /\ rs.oauth <=> \E i \in DOMAIN rt : rt[i] = "token"
                   /\ "nonce" \in DOMAIN rs <=> rs.oidc
                   /\ Param(url, "nonce") = IF rs.oidc THEN {rs.nonce} ELSE {}
                   /\ ~Falsy(url.endpoint)
                   /\ url.endpoint = IF ~Falsy(settings.authorization_endpoint)
                                     THEN settings.authorization_endpoint
                                     ELSE settings'.metadata.authorization_endpoint
          ELSE store' = store
    ]_vars

\* a request for an identity token alone was built: the stored request
\* state has oidc and a nonce, and no oauth
C9_Witness ==
    /\ call.op = "createTokenRequestAsync"
    /\ call.outcome.ok
    /\ call.outcome.val.request_state.oidc
    /\ ~call.outcome.val.request_state.oauth
    /\ "nonce" \in DOMAIN call.outcome.val.request_state
    /\ store[settings.request_state_key] # UndefinedObj

\* the key set loadX509SigningKeyAsync works on
KeySetInUse ==
    IF serverSettings.jwks # UndefinedObj THEN serverSettings.jwks ELSE provider.jwks

\* C10: loadX509SigningKeyAsync decides on the first key of the key set
\* alone: when it is not an RSA key the call fails with "Signing key not
\* RSA", also when the second key is an RSA key with a certificate chain;
\* when it is an RSA key without certificates the call fails with "RSA keys
\* empty"; otherwise the call resolves with its first certificate.
C10_FirstKeyOnly ==
    (call.op = "loadX509SigningKeyAsync" /\ Len(KeySetInUse.keys) >= 1) =>
        LET first == KeySetInUse.keys[1]
        IN  IF first.kty # "RSA" THEN FailsWith("Signing key not RSA")
            ELSE IF "x5c" \notin DOMAIN first \/ Len(first.x5c) = 0
            THEN FailsWith("RSA keys empty")
            ELSE call.outcome.ok /\ call.outcome.val = first.x5c[1]

\* the first key was an EC key, the second an RSA key with a certificate
C10_Witness ==
    /\ call.op = "loadX509SigningKeyAsync"
    /\ Len(KeySetInUse.keys) >= 2
    /\ KeySetInUse.keys[1].kty = "EC"
    /\ KeySetInUse.keys[2] = [kty |-> "RSA", x5c |-> <<ProviderCert>>]
    /\ FailsWith("Signing key not RSA")

\* the keys of the key set in use that are RSA keys with a certificate
QualifyingKeys ==
    {i \in DOMAIN KeySetInUse.keys :
        /\ KeySetInUse.keys[i].kty = "RSA"
        /\ "x5c" \in DOMAIN KeySetInUse.keys[i]
        /\ Len(KeySetInUse.keys[i].x5c) > 0}

\* C11: for every key set that holds an RSA key with a certificate chain,
\* loadX509SigningKeyAsync resolves with the first certificate of the first
\* such key of the set.
C11_FirstQualifyingKey ==
    (call.op = "loadX509SigningKeyAsync" /\ QualifyingKeys # {}) =>
        LET i == CHOOSE i \in QualifyingKeys : \A j \in QualifyingKeys : i <= j
        IN  call.outcome.ok /\ call.outcome.val = KeySetInUse.keys[i].x5c[1]

\* a call that verified an identity token, or would have: a direct call of
\* validateIdTokenAsync, or a processResponseAsync that passed every step
\* of C7 for a request state with oidc set
VerificationCall ==
    \/ call.op = "validateIdTokenAsync"
    \/ /\ UsedAvailable
       /\ FirstFailingStep = "none"
       /\ Flag(UsedRequestState, "oidc")

ExpectedNonce ==
    IF call.op = "validateIdTokenAsync" THEN call.nonce ELSE UsedRequestState.nonce

\* the token of the call is signed by the certificate of the first key, an
\* RSA key, of the key set the client holds after the call
SignatureValid ==
    /\ HoldsCertificate
    /\ settings.jwks.keys[1].kty = "RSA"
    /\ VerifiedToken.signer = settings.jwks.keys[1].x5c[1]

NonceValid == Get(VerifiedToken.payload, "nonce") = ExpectedNonce

\* the metadata was there for the checks of the claims
MetadataResolved == settings.metadata # UndefinedObj

IssuerValid ==
    MetadataResolved /\ VerifiedToken.payload.iss = settings.metadata.issuer

AudienceValid == VerifiedToken.payload.aud = settings.client_id

Fresh == Now - VerifiedToken.payload.iat <= 300

NotExpired == VerifiedToken.payload.exp >= Now

\* C12: a verification whose signature, nonce, issuer, audience and
\* staleness checks pass fails with "Token expired" exactly when exp < now:
\* exp = now is accepted, exp = now - 1 is refused; no other call fails
\* with that error.
C12_ExpiryBoundary ==
    VerificationCall =>
        (FailsWith("Token expired") <=>
            /\ SignatureValid /\ NonceValid /\ IssuerValid /\ AudienceValid
            /\ Fresh
            /\ VerifiedToken.payload.exp < Now)

\* a token that expires now was accepted
C12_Witness ==
    /\ call.op = "validateIdTokenAsync"
    /\ VerifiedToken.payload.exp = Now
    /\ call.outcome.ok

\* C13: a verification whose signature, nonce, issuer and audience checks
\* pass fails with "Token issued too long ago" exactly when now - iat > 300,
\* whatever exp is: iat = now - 300 is accepted, iat = now - 301 is refused,
\* and a token both stale and expired is refused as stale.
C13_StalenessBoundary ==
    VerificationCall =>
        (FailsWith("Token issued too long ago") <=>
            /\ SignatureValid /\ NonceValid /\ IssuerValid /\ AudienceValid
            /\ Now - VerifiedToken.payload.iat > 300)

\* a token issued 301 seconds ago that has also expired was refused as stale
C13_Witness ==
    /\ call.op = "validateIdTokenAsync"
    /\ VerifiedToken.payload.iat = Now - 301
    /\ VerifiedToken.payload.exp < Now
    /\ FailsWith("Token issued too long ago")

\* C14: a processResponseAsync that passed every step of C7 verifies as the
\* request state asks.  With oidc and oauth the signature is verified once
\* the key is there, and the call succeeds only after one at_hash check.
\* With oidc alone the signature is verified once the key is there, and
\* there is no at_hash check and no userinfo fetch, also when the callback
\* has an access token.  Without oidc nothing is fetched or verified, and
\* the call succeeds with a session that has no profile.
C14_Dispatch ==
    (UsedAvailable /\ FirstFailingStep = "none") =>
        LET log == call.outcome.log
            oidc == Flag(UsedRequestState, "oidc")
            oauth == Flag(UsedRequestState, "oauth")
            keyResolved == HoldsCertificate /\ settings.jwks.keys[1].kty = "RSA"
        IN  /\ oidc =>
                   /\ Times(log, "verify:signature") = IF keyResolved THEN 1 ELSE 0
                   /\ (call.outcome.ok => (SignatureValid /\ NonceValid))
            /\ (oidc /\ oauth /\ call.outcome.ok) =>
                   Times(log, "check:at_hash") = 1
            /\ (oidc /\ ~oauth) =>
                   /\ Times(log, "check:at_hash") = 0
                   /\ Times(log, "fetch:userinfo") = 0
            /\ ~oidc =>
                   /\ log = <<>>
                   /\ call.outcome.ok
                   /\ call.outcome.val.profile = UndefinedObj

\* a request state with oidc alone, and a callback with an access token:
\* the call succeeded without a userinfo fetch
C14_Witness ==
    /\ UsedAvailable
    /\ Flag(UsedRequestState, "oidc")
    /\ ~Flag(UsedRequestState, "oauth")
    /\ call.result # Null
    /\ ~Falsy(call.result.access_token)
    /\ settings.load_user_profile
    /\ call.outcome.ok
    /\ Times(call.outcome.log, "verify:signature") = 1

\* the checks of a verification, in the order of C15, and the error of each
CheckOrder ==
    <<"verify:signature", "check:nonce", "check:iss", "check:aud", "check:iat",
      "check:exp", "check:at_hash">>

CheckErrors ==
    <<{"JWT failed to validate"}, {"Invalid nonce"}, {"Invalid issuer"},
      {"Invalid audience"}, {"Token issued too long ago"}, {"Token expired"},
      {"No at_hash in id_token", "at_hash failed to validate"}>>

\* the checks among the events of log, in the order they were made
ChecksMade(log) ==
    LET IsCheck(e) == \E i \in DOMAIN CheckOrder : CheckOrder[i] = e
    IN  SelectSeq(log, IsCheck)

\* C15: the checks of a verification are made one after the other in the
\* order signature, nonce, issuer, audience, staleness, expiry, at_hash,
\* each once; the first check the token fails gives the error of the call
\* and is its last event, so no later check or fetch is made; the at_hash
\* check is made only for a token that passed the six checks before it and
\* after the userinfo fetch, if any, succeeded.
C15_ChecksInOrder ==
    VerificationCall =>
        LET log == call.outcome.log
            made == ChecksMade(log)
        IN  /\ made = SubSeq(CheckOrder, 1, Len(made))
            /\ \A i \in DOMAIN CheckOrder :
                   (~call.outcome.ok /\ call.outcome.err \in CheckErrors[i]) =>
                       /\ Len(made) = i
                       /\ log[Len(log)] = CheckOrder[i]
            /\ (HoldsCertificate /\ settings.jwks.keys[1].kty = "RSA") =>
                   IF ~SignatureValid THEN FailsWith("JWT failed to validate")
                   ELSE IF ~NonceValid THEN FailsWith("Invalid nonce")
                   ELSE MetadataResolved =>
                        IF ~IssuerValid THEN FailsWith("Invalid issuer")
                        ELSE IF ~AudienceValid THEN FailsWith("Invalid audience")
                        ELSE IF ~Fresh THEN FailsWith("Token issued too long ago")
                        ELSE IF ~NotExpired THEN FailsWith("Token expired")
                        ELSE Len(made) >= 6
            /\ Times(log, "check:at_hash") = 1 =>
                   /\ SignatureValid /\ NonceValid /\ IssuerValid
                   /\ AudienceValid /\ Fresh /\ NotExpired
                   /\ (Times(log, "fetch:userinfo") = 1 => call.net.userinfo # FetchError)

\* a token with a forged signature and a foreign nonce was refused for its
\* signature, and nothing was checked after it
C15_Witness ==
    /\ VerificationCall
    /\ HoldsCertificate
    /\ ~SignatureValid
    /\ ~NonceValid
    /\ FailsWith("JWT failed to validate")
    /\ ChecksMade(call.outcome.log) = <<"verify:signature">>

\* claims with the members of userinfo written over them
Overlaid(claims, userinfo) ==
    [k \in DOMAIN claims \cup DOMAIN userinfo |->
        IF k \in DOMAIN userinfo THEN userinfo[k] ELSE claims[k]]

\* C16: validateIdTokenAsync asks the userinfo endpoint at most once, only
\* with an access token and load_user_profile set, and only after the token
\* passed every check; it does ask whenever these hold and the metadata
\* names the endpoint.  A call that resolves gives the claims of the token
\* as they are when nothing was asked or the answer has a statusCode, and
\* otherwise the claims with the userinfo written over them; an answer with
\* a statusCode does not fail the call.
C16_UserinfoMerge ==
    call.op = "validateIdTokenAsync" =>
        LET log == call.outcome.log
            asked == Times(log, "fetch:userinfo")
            claims == call.id_token.payload
            userinfo == call.net.userinfo
            wanted == ~Falsy(call.access_token) /\ settings.load_user_profile
            passed == /\ SignatureValid /\ NonceValid /\ IssuerValid
                      /\ AudienceValid /\ Fresh /\ NotExpired
        IN  /\ asked <= 1
            /\ asked = 1 =>
                   /\ wanted
                   /\ passed
                   /\ \A i \in DOMAIN log :
                          log[i] = "fetch:userinfo" =>
                              \E j \in 1..(i - 1) : log[j] = "check:exp"
            /\ (wanted /\ passed /\ ~Falsy(settings.metadata.userinfo_endpoint)) =>
                   asked = 1
            /\ (asked = 1 /\ userinfo # FetchError /\ "statusCode" \in DOMAIN userinfo) =>
                   call.outcome.ok
            /\ call.outcome.ok =>
                   call.outcome.val =
                       IF asked = 0 \/ "statusCode" \in DOMAIN userinfo THEN claims
                       ELSE Overlaid(claims, userinfo)

\* the userinfo had an at_hash other than the token's, and the call gave
\* the userinfo's
C16_Witness ==
    /\ call.op = "validateIdTokenAsync"
    /\ call.outcome.ok
    /\ Times(call.outcome.log, "fetch:userinfo") = 1
    /\ "at_hash" \in DOMAIN call.net.userinfo
    /\ call.net.userinfo.at_hash # call.id_token.payload.at_hash
    /\ call.outcome.val.at_hash = call.net.userinfo.at_hash
    /\ call.outcome.val.iss = call.id_token.payload.iss

\* C17: a processResponseAsync without the requestState argument leaves no
\* entry under the request-state key, whether it succeeds or fails, and
\* one that finds no entry fails with "No request state loaded": a callback
\* that is refused uses up the stored request state.  A call with the
\* requestState argument leaves the entry as it was.
C17_StoreAfterCall ==
    call.op = "processResponseAsync" =>
        IF FromStore
        THEN /\ store[settings.request_state_key] = UndefinedObj
             /\ call.stored = UndefinedObj => FailsWith("No request state loaded")
        ELSE store[settings.request_state_key] = call.stored

\* a callback with a foreign state was refused, and the request state that
\* createTokenRequestAsync had stored is gone
C17_Witness ==
    /\ FromStore
    /\ call.previousStoreAccess = "written"
    /\ call.stored # UndefinedObj
    /\ FailsWith("Invalid state")
    /\ store[settings.request_state_key] = UndefinedObj

\* C18: the store holds one pending attempt per key.  In every history of
\* requests built and callbacks processed without a requestState argument,
\* a callback is answered by what came right before it: after a request was
\* built, the callback succeeds when it carries the state of that request
\* and fails with "Invalid state" when it carries another one, that of an
\* earlier request included; after another callback, or at the start, it
\* fails with "No request state loaded".  So build(A), build(B),
\* callback(A), callback(B) with A # B ends in "Invalid state" and then
\* "No request state loaded".
C18_OnePendingAttempt ==
    \A i \in DOMAIN attempts :
        attempts[i].op = "callback" =>
            IF i = 1 \/ attempts[i - 1].op = "callback"
            THEN ~attempts[i].ok /\ attempts[i].err = "No request state loaded"
            ELSE /\ attempts[i - 1].ok
                 /\ IF attempts[i].state = attempts[i - 1].state
                    THEN attempts[i].ok
                    ELSE ~attempts[i].ok /\ attempts[i].err = "Invalid state"

C18_Witness ==
    /\ Len(attempts) = 4
    /\ attempts[1].op = "build" /\ attempts[1].ok
    /\ attempts[2].op = "build" /\ attempts[2].ok
    /\ attempts[1].state # attempts[2].state
    /\ attempts[3].op = "callback" /\ attempts[3].state = attempts[1].state
    /\ ~attempts[3].ok /\ attempts[3].err = "Invalid state"
    /\ attempts[4].op = "callback" /\ attempts[4].state = attempts[2].state
    /\ ~attempts[4].ok /\ attempts[4].err = "No request state loaded"

\* a call of processResponseAsync that verifies the identity token and binds
\* the access token, by a client that loads the user profile
HybridWithProfile ==
    /\ UsedAvailable
    /\ FirstFailingStep = "none"
    /\ Flag(UsedRequestState, "oidc")
    /\ Flag(UsedRequestState, "oauth")
    /\ settings.load_user_profile

\* the claims validateIdTokenAsync resolves with, given what the userinfo
\* endpoint answered in the call
MergedClaims ==
    IF IsHttpResponse(call.net.userinfo) THEN call.result.id_token.payload
    ELSE Overlaid(call.result.id_token.payload, call.net.userinfo)

BindingErrors == {"No at_hash in id_token", "at_hash failed to validate"}

\* C19: in a hybrid call with load_user_profile set, the at_hash check is
\* made only after the one userinfo request of the call, and it is decided
\* by the claims merged with the userinfo response: the call fails with
\* "No at_hash in id_token" when they have no at_hash, with "at_hash failed
\* to validate" when theirs is not the left hash of the access token, and
\* otherwise resolves, whatever the at_hash of the token's payload is.  A
\* call that fails the binding made exactly one userinfo request.
C19_UserinfoBeforeBinding ==
    HybridWithProfile =>
        LET log == call.outcome.log
            checked == \E j \in DOMAIN log : log[j] = "check:at_hash"
            at_hash == Get(MergedClaims, "at_hash")
        IN  /\ checked =>
                /\ Times(log, "fetch:userinfo") = 1
                /\ \E i, j \in DOMAIN log :
                       /\ i < j
                       /\ log[i] = "fetch:userinfo"
                       /\ log[j] = "check:at_hash"
                /\ FailsWith("No at_hash in id_token") <=> Falsy(at_hash)
                /\ FailsWith("at_hash failed to validate") <=>
                       (~Falsy(at_hash)
                            /\ at_hash # LeftHashB64u(call.result.access_token))
                /\ call.outcome.ok <=>
                       at_hash = LeftHashB64u(call.result.access_token)
            /\ (~call.outcome.ok /\ call.outcome.err \in BindingErrors) =>
                   checked /\ Times(log, "fetch:userinfo") = 1

\* the token's own at_hash is the left hash of the access token, the
\* userinfo response carries another one, and the call fails the binding
\* after its one userinfo request
C19_Witness ==
    /\ HybridWithProfile
    /\ FailsWith("at_hash failed to validate")
    /\ Times(call.outcome.log, "fetch:userinfo") = 1
    /\ Get(call.result.id_token.payload, "at_hash")
           = LeftHashB64u(call.result.access_token)
    /\ Get(MergedClaims, "at_hash") # LeftHashB64u(call.result.access_token)

\* a call of processResponseAsync resolved with a session
SessionDelivered == call.op = "processResponseAsync" /\ call.outcome.ok

\* the identity token of the call passed the six checks of its verification
\* in the call
VerifiedInCall ==
    /\ SubSeq(ChecksMade(call.outcome.log), 1, 6) = SubSeq(CheckOrder, 1, 6)
    /\ SignatureValid
    /\ NonceValid
    /\ IssuerValid
    /\ AudienceValid
    /\ Fresh
    /\ NotExpired

\* C20 as stated: every id_token a session delivers passed the verification
\* (signature, nonce, issuer, audience, staleness, expiry) in the call that
\* resolved with the session, so a call for a request state without oidc
\* delivers none.
C20_Original ==
    (SessionDelivered /\ call.outcome.val.id_token # UndefinedObj) =>
        /\ Flag(UsedRequestState, "oidc")
        /\ VerifiedInCall

\* C20 as amended: the session carries the id_token of the callback as it
\* came.  For a request state with oidc set there is one and it passed the
\* verification (signature, nonce, issuer, audience, staleness, expiry) in
\* that call; for a request state without oidc nothing is fetched or
\* verified, the profile is absent, and an id_token of the callback is
\* delivered unverified.
C20_Amended ==
    SessionDelivered =>
        /\ UsedAvailable
        /\ call.outcome.val.id_token = call.result.id_token
        /\ IF Flag(UsedRequestState, "oidc")
           THEN /\ call.outcome.val.id_token # UndefinedObj
                /\ VerifiedInCall
           ELSE /\ call.outcome.log = <<>>
                /\ call.outcome.val.profile = UndefinedObj

C20_Witness ==
    /\ SessionDelivered
    /\ Flag(UsedRequestState, "oidc")
    /\ call.outcome.val.id_token # UndefinedObj
    /\ call.outcome.val.id_token = call.result.id_token
    /\ "verify:signature" \in {call.outcome.log[i] : i \in DOMAIN call.outcome.log}

====
